---- MODULE Spec2Model ----
(***************************************************************************)
(* A model of the NTID codec (src/src/ntid.ts): identifiers of the form    *)
(* Type[body].  Strings are sequences of UTF-16 code units and byte arrays *)
(* are sequences of numbers in 0..255, so that parsing, sorting and the    *)
(* Base64 bit packing are computed, not assumed.                           *)
(***************************************************************************)
EXTENDS Integers, Sequences, FiniteSets, TLC

VARIABLES
  op,        \* the function that produced `id`: "none", "caller", "makeId", ...
  type,      \* the type argument of the call that produced `id` (or of decode)
  ids,       \* the list of nested identifiers handed to the Composer
  id,        \* the identifier string the caller holds
  typeOut,   \* outcome of getTypeFromId(id)
  innerOut,  \* outcome of getInnerPartOfId(id)
  recon,     \* outcome of reconstructIdFromTypeAndInnerPart(typeOut, innerOut)
  encoded,   \* outcome of encodeIdToBytes(id)
  bytes,     \* the byte array handed to decodeIdFromBytes
  decoded    \* outcome of decodeIdFromBytes(type, bytes)

vars == <<op, type, ids, id, typeOut, innerOut, recon, encoded, bytes, decoded>>

(***************************************************************************)
(* Bounds of the model.                                                    *)
(***************************************************************************)
MaxLen == 4        \* longest caller-typed string given to the Parser
MaxIds == 3        \* longest list of nested identifiers given to the Composer
MaxFill == 3       \* background patterns of the random source: 0..MaxFill
LengthSlack == 1   \* byte arrays and inner parts up to this much over length

(***************************************************************************)
(* Code units the source names in its literals and regular expressions.    *)
(***************************************************************************)
LBRACKET == 91     \* '['
RBRACKET == 93     \* ']'
COMMA == 44        \* ','
CHAR_A == 65       \* 'A', the zero sextet
MINUS == 45        \* '-'
UNDERSCORE == 95   \* '_'
PLUS == 43         \* '+'
SLASH == 47        \* '/'
EQUALS == 61       \* '='

NTID_LENGTH == 22
NTID_BYTES == 17

\* 'A'..'Z', 'a'..'z', '0'..'9', '-', '_'
BASE_64_URL_ALPHABET ==
  [i \in 1..26 |-> 64 + i] \o [i \in 1..26 |-> 96 + i] \o
  [i \in 1..10 |-> 47 + i] \o <<MINUS, UNDERSCORE>>

(***************************************************************************)
(* Outcomes: a call returns a value or throws.                             *)
(***************************************************************************)
Ok(v) == [err |-> "none", val |-> v]
Throw(kind) == [err |-> kind, val |-> <<>>]
NotCalled == [err |-> "notCalled", val |-> <<>>]

\* invariant(condition, message) of the 'invariant' package: throws unless
\* the condition holds; `kind` names the throw site.
invariant(condition, kind, result) == IF condition THEN result ELSE Throw(kind)

Min(S) == CHOOSE x \in S : \A y \in S : x <= y
Max(S) == CHOOSE x \in S : \A y \in S : x >= y

(***************************************************************************)
(* Composer.                                                               *)
(***************************************************************************)
\* Array.prototype.join
RECURSIVE join(_, _)
join(list, sep) ==
  IF list = <<>> THEN <<>>
  ELSE IF Len(list) = 1 THEN list[1]
  ELSE list[1] \o sep \o join(Tail(list), sep)

\* `${type}[${inner}]`
template(t, inner) == t \o <<LBRACKET>> \o inner \o <<RBRACKET>>

makeCompoundId(t, list) == template(t, join(list, <<COMMA>>))

\* A comparator that orders the strings from the largest to the smallest.
RECURSIVE stringGreater(_, _)
stringGreater(x, y) ==
  IF x = <<>> THEN FALSE
  ELSE IF y = <<>> THEN TRUE
  ELSE IF x[1] # y[1] THEN x[1] > y[1]
  ELSE stringGreater(Tail(x), Tail(y))

\* The default comparator of Array.prototype.sort: x < y on strings compares
\* code unit by code unit, a proper prefix being smaller.
RECURSIVE stringLess(_, _)
stringLess(x, y) ==
  IF y = <<>> THEN FALSE
  ELSE IF x = <<>> THEN TRUE
  ELSE IF x[1] # y[1] THEN x[1] < y[1]
  ELSE stringLess(Tail(x), Tail(y))

\* An insertion that drops a string the sorted list already holds.
RECURSIVE insertSortedUnique(_, _)
insertSortedUnique(sorted, x) ==
  IF sorted = <<>> THEN <<x>>
  ELSE IF x = sorted[1] THEN sorted
  ELSE IF stringLess(x, sorted[1]) THEN <<x>> \o sorted
  ELSE <<sorted[1]>> \o insertSortedUnique(Tail(sorted), x)

RECURSIVE insertSorted(_, _)
insertSorted(sorted, x) ==
  IF sorted = <<>> THEN <<x>>
  ELSE IF stringLess(x, sorted[1]) THEN <<x>> \o sorted
  ELSE <<sorted[1]>> \o insertSorted(Tail(sorted), x)

\* A sort that leaves the list as it is given.
sortUnsorted(list) == list

\* Array.from(ids).sort()
RECURSIVE sort(_)
sort(list) ==
  IF list = <<>> THEN <<>>
  ELSE insertSorted(sort(SubSeq(list, 1, Len(list) - 1)), list[Len(list)])

makeSymmetricId(t, list) == template(t, join(sort(list), <<COMMA>>))

(***************************************************************************)
(* Parser: the regular expression of getTypeAndInnerPart, group 1 being   *)
(* one or more units other than '[' and group 2 any run of units that '.' *)
(* matches, between a '[' and a final ']'.                                 *)
(***************************************************************************)
\* What '.' does not match (no s flag): LF, CR, U+2028, U+2029.
LineTerminators == {10, 13, 8232, 8233}

\* Ends p of group 1: [^[]+ matches id[1..p], one or more units, none '['.
group1Ends(s) == {p \in 1..Len(s) : \A i \in 1..p : s[i] # LBRACKET}

\* Ends q of group 2 begun after the '[' at p + 1: .* matches id[p+2..q].
group2Ends(s, p) ==
  {q \in (p + 1)..Len(s) : \A i \in (p + 2)..q : s[i] \notin LineTerminators}

\* The pattern without its final $: the ']' need not end the string.
regexMatchesUnanchored(s) ==
  LET n == Len(s)
      ps == {p \in group1Ends(s) : p + 1 <= n /\ s[p + 1] = LBRACKET}
  IN UNION {{<<p, q>> : q \in {r \in group2Ends(s, p) :
                                r + 1 <= n /\ s[r + 1] = RBRACKET}} : p \in ps}

\* Every way the pattern matches the whole string: '[' follows group 1,
\* ']' follows group 2 and is the last unit ($ without the m flag).
regexMatches(s) ==
  LET n == Len(s)
      ps == {p \in group1Ends(s) : p + 1 <= n /\ s[p + 1] = LBRACKET}
  IN UNION {{<<p, q>> : q \in {r \in group2Ends(s, p) :
                                r + 1 = n /\ s[r + 1] = RBRACKET}} : p \in ps}

\* A parser whose type runs to the last '[' of the string, not the first.
getTypeAndInnerPartLastOpen(s) ==
  LET opens == {i \in 1..Len(s) : s[i] = LBRACKET}
  IN IF opens # {} /\ Max(opens) > 1 /\ s[Len(s)] = RBRACKET
          /\ \A i \in (Max(opens) + 1)..(Len(s) - 1) : s[i] \notin LineTerminators
       THEN Ok(<<SubSeq(s, 1, Max(opens) - 1),
                 SubSeq(s, Max(opens) + 1, Len(s) - 1)>>)
       ELSE Throw("InvalidFormat")

\* A parser that closes the body at the first ']' and not the last.
getTypeAndInnerPartFirstClose(s) ==
  LET firsts == {i \in 1..Len(s) : s[i] = LBRACKET}
      closes == {i \in 1..Len(s) : s[i] = RBRACKET /\ firsts # {} /\ i > Min(firsts)}
  IN IF firsts # {} /\ Min(firsts) > 1 /\ closes # {}
       THEN Ok(<<SubSeq(s, 1, Min(firsts) - 1),
                 SubSeq(s, Min(firsts) + 1, Min(closes) - 1)>>)
       ELSE Throw("InvalidFormat")

\* The greedy quantifiers take the longest group 1, then the longest group 2.
getTypeAndInnerPart(s) ==
  LET ms == regexMatches(s)
      p == Max({pq[1] : pq \in ms})
      q == Max({pq[2] : pq \in {m \in ms : m[1] = p}})
  IN invariant(ms # {}, "InvalidFormat",
               Ok(<<SubSeq(s, 1, p), SubSeq(s, p + 2, q)>>))

getTypeFromId(s) ==
  LET r == getTypeAndInnerPart(s)
  IN IF r.err = "none" THEN Ok(r.val[1]) ELSE r

getInnerPartOfId(s) ==
  LET r == getTypeAndInnerPart(s)
  IN IF r.err = "none" THEN Ok(r.val[2]) ELSE r

reconstructIdFromTypeAndInnerPart(t, innerPart) == template(t, innerPart)

(***************************************************************************)
(* The platform's Base64: atob (forgiving-base64 decode) and btoa.         *)
(***************************************************************************)
\* 'A'..'Z', 'a'..'z', '0'..'9', '+', '/'
STANDARD_BASE64_ALPHABET ==
  [i \in 1..26 |-> 64 + i] \o [i \in 1..26 |-> 96 + i] \o
  [i \in 1..10 |-> 47 + i] \o <<PLUS, SLASH>>

AsciiWhitespace == {9, 10, 12, 13, 32}

Base64Units == {STANDARD_BASE64_ALPHABET[i] : i \in 1..64}

\* The value 0..63 of each unit of the standard alphabet.
sextetOf ==
  [c \in Base64Units |-> (CHOOSE i \in 1..64 : STANDARD_BASE64_ALPHABET[i] = c) - 1]

Pow2(n) == 2 ^ n

\* A replace without the g flag: only the first occurrence is replaced.
replaceFirst(s, x, y) ==
  [i \in 1..Len(s) |->
     IF s[i] = x /\ \A j \in 1..(i - 1) : s[j] # x THEN y ELSE s[i]]

\* String.prototype.replace(/x/g, y)
replaceAll(s, x, y) == [i \in 1..Len(s) |-> IF s[i] = x THEN y ELSE s[i]]

\* The longest prefix of s that does not end in unit c.
RECURSIVE stripTrailing(_, _)
stripTrailing(s, c) ==
  IF s # <<>> /\ s[Len(s)] = c THEN stripTrailing(SubSeq(s, 1, Len(s) - 1), c)
  ELSE s

\* A decoder that drops a last incomplete group of units.
base64BytesWholeGroups(data) ==
  LET byteAt(k) ==
        LET b == 8 * (k - 1)
            ci == (b \div 6) + 1
            off == b % 6
            window == sextetOf[data[ci]] * 64 + sextetOf[data[ci + 1]]
        IN (window \div Pow2(4 - off)) % 256
  IN [k \in 1..((Len(data) \div 4) * 3) |-> byteAt(k)]

\* The bytes of a run of units of the alphabet: every 4 units give 3 bytes,
\* and the 12 or 18 bits of a last incomplete group give 1 or 2 bytes, the
\* bits left over being discarded.
base64Bytes(data) ==
  LET byteAt(k) ==
        LET b == 8 * (k - 1)
            ci == (b \div 6) + 1
            off == b % 6
            window == sextetOf[data[ci]] * 64 + sextetOf[data[ci + 1]]
        IN (window \div Pow2(4 - off)) % 256
  IN [k \in 1..((Len(data) * 6) \div 8) |-> byteAt(k)]

\* A decoder that skips the units outside the alphabet instead of throwing.
atobLenient(s) == Ok(base64Bytes(SelectSeq(s, LAMBDA c : c \in Base64Units)))

\* atob: ASCII whitespace is removed; a string whose length is a multiple of
\* 4 loses up to two trailing '='; a length of 1 modulo 4 or a unit outside
\* the alphabet is an error.
atob(s) ==
  LET data == SelectSeq(s, LAMBDA c : c \notin AsciiWhitespace)
      n0 == Len(data)
      data2 ==
        IF n0 > 0 /\ n0 % 4 = 0 /\ data[n0] = EQUALS
          THEN IF data[n0 - 1] = EQUALS THEN SubSeq(data, 1, n0 - 2)
               ELSE SubSeq(data, 1, n0 - 1)
          ELSE data
      n == Len(data2)
      valid == n % 4 # 1 /\ \A i \in 1..n : data2[i] \in Base64Units
  IN IF valid THEN Ok(base64Bytes(data2)) ELSE Throw("InvalidCharacterError")

\* btoa: every 3 bytes give 4 units; a last group of 1 or 2 bytes is padded
\* with zero bits to 2 or 3 units and with '=' to 4; a unit above 255 is an
\* error.
btoa(s) ==
  LET n == Len(s)
      nsyms == (8 * n + 5) \div 6
      npad == (4 - (nsyms % 4)) % 4
      symAt(j) ==
        LET b == 6 * (j - 1)
            bi == (b \div 8) + 1
            off == b % 8
            window == s[bi] * 256 + (IF bi + 1 <= n THEN s[bi + 1] ELSE 0)
        IN STANDARD_BASE64_ALPHABET[((window \div Pow2(10 - off)) % 64) + 1]
  IN IF \A i \in 1..n : s[i] <= 255
       THEN Ok([j \in 1..nsyms |-> symAt(j)] \o [j \in 1..npad |-> EQUALS])
       ELSE Throw("InvalidCharacterError")

\* String.fromCodePoint(...bytes): one unit per code point below 2^16, a
\* surrogate pair above.
RECURSIVE fromCodePoint(_)
fromCodePoint(cps) ==
  IF cps = <<>> THEN <<>>
  ELSE (IF cps[1] < 65536 THEN <<cps[1]>>
        ELSE <<55296 + ((cps[1] - 65536) \div 1024),
               56320 + ((cps[1] - 65536) % 1024)>>)
       \o fromCodePoint(Tail(cps))

(***************************************************************************)
(* Binary transcoder.                                                      *)
(***************************************************************************)
\* innerPart.length === NTID_LENGTH
innerPartLengthOk(innerPart) == Len(innerPart) = NTID_LENGTH

\* No zero sextet appended.
paddedInnerPartNone(innerPart) == innerPart

\* `${innerPart}A`: one zero sextet appended.
paddedInnerPart(innerPart) == innerPart \o <<CHAR_A>>

\* A conversion that maps '-' to '+' and leaves '_' as it is.
base64URLToBase64MinusOnly(s) == replaceAll(s, MINUS, PLUS)

\* .replace(/-/g, '+').replace(/_/g, '/')
base64URLToBase64(s) == replaceAll(replaceAll(s, MINUS, PLUS), UNDERSCORE, SLASH)

encodeIdToBytes(s) ==
  LET innerPart == getInnerPartOfId(s)
  IN IF innerPart.err # "none" THEN innerPart
     ELSE invariant(innerPartLengthOk(innerPart.val), "LengthMismatch",
       LET base64URLString == base64URLToBase64(paddedInnerPart(innerPart.val))
           binaryString == atob(base64URLString)
       IN IF binaryString.err # "none" THEN binaryString
          ELSE LET uint8Array ==
                     [i \in 1..Len(binaryString.val) |-> binaryString.val[i] % 256]
               IN invariant(Len(uint8Array) = NTID_BYTES, "InternalError",
                            Ok(uint8Array)))

\* A length check that only refuses arrays that are too long.
bytesLengthAtMost(b) == Len(b) <= NTID_BYTES

\* bytes.length === 17
bytesLengthOk(b) == Len(b) = NTID_BYTES

\* A conversion that leaves the '=' padding of btoa in place.
base64ToBase64URLPadded(s) ==
  replaceAll(replaceAll(s, PLUS, MINUS), SLASH, UNDERSCORE)

\* .replace(/\+/g, '-').replace(/\//g, '_').replace(/=+$/, '')
base64ToBase64URL(s) ==
  stripTrailing(replaceAll(replaceAll(s, PLUS, MINUS), SLASH, UNDERSCORE), EQUALS)

\* String.prototype.endsWith, for a string of one unit.
endsWith(s, c) == s # <<>> /\ s[Len(s)] = c

decodeIdFromBytes(t, b) ==
  invariant(bytesLengthOk(b), "LengthMismatch",
    LET binaryString == fromCodePoint(b)
        base64String == btoa(binaryString)
    IN IF base64String.err # "none" THEN base64String
       ELSE LET base64URLStringBeforeRemovalOfPadding ==
                  base64ToBase64URL(base64String.val)
                innerPart ==
                  SubSeq(base64URLStringBeforeRemovalOfPadding, 1,
                         Len(base64URLStringBeforeRemovalOfPadding) - 1)
            IN invariant(endsWith(base64URLStringBeforeRemovalOfPadding, CHAR_A),
                         "CorruptEncoding",
                         Ok(reconstructIdFromTypeAndInnerPart(t, innerPart))))

(***************************************************************************)
(* Generator.                                                              *)
(***************************************************************************)
\* uuidv4(null, buf, offset) of the 'uuid' package: 16 random bytes with the
\* version in the high nibble of byte 6 and the variant in the top two bits
\* of byte 8 (counted from 0).
uuidv4(rnds) ==
  [i \in 1..16 |->
     IF i = 7 THEN (rnds[i] % 16) + 64
     ELSE IF i = 9 THEN (rnds[i] % 64) + 128
     ELSE rnds[i]]

\* A generator that maps all 32 bytes and not the first NTID_LENGTH.
makeIdNoSlice(t, rnds) ==
  LET buf == uuidv4(SubSeq(rnds, 1, 16)) \o uuidv4(SubSeq(rnds, 17, 32))
      body ==
        [i \in 1..Len(buf) |->
           BASE_64_URL_ALPHABET[(buf[i] % Len(BASE_64_URL_ALPHABET)) + 1]]
  IN template(t, body)

\* rnds: the 32 bytes the random source hands to the two uuidv4 calls.
makeId(t, rnds) ==
  LET buf == uuidv4(SubSeq(rnds, 1, 16)) \o uuidv4(SubSeq(rnds, 17, 32))
      body ==
        [i \in 1..NTID_LENGTH |->
           BASE_64_URL_ALPHABET[(buf[i] % Len(BASE_64_URL_ALPHABET)) + 1]]
  IN template(t, body)

(***************************************************************************)
(* Inputs the callers draw.                                                *)
(***************************************************************************)
\* Types: "a", "a]", "\na" (non-empty, no '[').
TypeSample == {<<97>>, <<97, RBRACKET>>, <<10, 97>>}

\* Units a caller types into a string handed to the Parser:
\* 'a', '[', ']', ',', a line feed and a line separator (U+2028).
CharSample == {97, LBRACKET, RBRACKET, COMMA, 10, 8232}

\* Background bytes of the random source and of stored byte arrays:
\* 0x00, 0x55, 0xAA, 0xFF, ...
FillByte(f) == (f * 85) % 256

\* 32 bytes of the random source: a background pattern and one byte that
\* takes every value at every position.
RandomSource ==
  {[i \in 1..32 |-> IF i = hot THEN v ELSE FillByte(f)] :
     hot \in 1..32, v \in 0..255, f \in 0..MaxFill}

\* Byte arrays a caller reads back from storage: of the right length with
\* one byte taking every value at every position, and of other lengths.
ByteArrays ==
  {[i \in 1..NTID_BYTES |-> IF i = hot THEN v ELSE FillByte(f)] :
     hot \in 1..NTID_BYTES, v \in 0..255, f \in 0..MaxFill}
  \cup {[i \in 1..n |-> FillByte(f)] :
          n \in 0..(NTID_BYTES + LengthSlack), f \in 0..MaxFill}

\* Units of inner parts a caller writes by hand: 'A', '_', '+', ' ', '=',
\* '[', ',' and a line feed.
InnerCharSample == {CHAR_A, UNDERSCORE, PLUS, 32, EQUALS, LBRACKET, COMMA, 10}

\* Inner parts a caller writes by hand: of one unit repeated, of every
\* length up to and beyond NTID_LENGTH, and of length NTID_LENGTH with one
\* unit of InnerCharSample in a body of 'A's.
InnerParts ==
  {[i \in 1..n |-> c] :
     n \in 0..(NTID_LENGTH + LengthSlack), c \in InnerCharSample}
  \cup {[i \in 1..NTID_LENGTH |-> IF i = hot THEN c ELSE CHAR_A] :
          hot \in 1..NTID_LENGTH, c \in InnerCharSample}

\* Identifiers the Composer is given: "a[]", "b[a[]]", "ab[a[],a[]]",
\* "\na[]", "a[],a[]" written by hand, and one minted identifier.
IdLeaf == makeCompoundId(<<97>>, <<>>)
IdNest == makeCompoundId(<<98>>, <<IdLeaf>>)
IdPair == makeCompoundId(<<97, 98>>, <<IdLeaf, IdLeaf>>)
IdNewline == makeCompoundId(<<10, 97>>, <<>>)
IdComma == IdLeaf \o <<COMMA>> \o IdLeaf
IdMinted == makeId(<<97>>, [i \in 1..32 |-> FillByte(1)])
IdPool == {IdLeaf, IdNest, IdPair, IdNewline, IdComma, IdMinted}

(***************************************************************************)
(* Actions: one per exported function, and the callers' inputs.            *)
(***************************************************************************)
NoCalls ==
  /\ typeOut = NotCalled /\ innerOut = NotCalled /\ recon = NotCalled
  /\ encoded = NotCalled /\ decoded = NotCalled

\* A caller types one more unit of a string it will hand to the Parser.
TypeChar ==
  /\ op = "caller" /\ NoCalls /\ Len(id) < MaxLen
  /\ \E c \in CharSample : id' = Append(id, c)
  /\ UNCHANGED <<op, type, ids, typeOut, innerOut, recon, encoded, bytes, decoded>>

\* A caller collects one more identifier for the Composer.
AddId ==
  /\ op = "none" /\ Len(ids) < MaxIds
  /\ \E x \in IdPool : ids' = Append(ids, x)
  /\ UNCHANGED <<op, type, id, typeOut, innerOut, recon, encoded, bytes, decoded>>

MakeId ==
  /\ op = "none" /\ ids = <<>> /\ decoded = NotCalled
  /\ \E t \in TypeSample, rnds \in RandomSource :
       /\ type' = t
       /\ id' = makeId(t, rnds)
  /\ op' = "makeId"
  /\ UNCHANGED <<ids, typeOut, innerOut, recon, encoded, bytes, decoded>>

MakeCompoundId ==
  /\ op = "none"
  /\ \E t \in TypeSample :
       /\ type' = t
       /\ id' = makeCompoundId(t, ids)
  /\ op' = "makeCompoundId"
  /\ UNCHANGED <<ids, typeOut, innerOut, recon, encoded, bytes, decoded>>

MakeSymmetricId ==
  /\ op = "none"
  /\ \E t \in TypeSample :
       /\ type' = t
       /\ id' = makeSymmetricId(t, ids)
  /\ op' = "makeSymmetricId"
  /\ UNCHANGED <<ids, typeOut, innerOut, recon, encoded, bytes, decoded>>

GetTypeFromId ==
  /\ op # "none" /\ typeOut = NotCalled
  /\ typeOut' = getTypeFromId(id)
  /\ UNCHANGED <<op, type, ids, id, innerOut, recon, encoded, bytes, decoded>>

GetInnerPartOfId ==
  /\ op # "none" /\ innerOut = NotCalled
  /\ innerOut' = getInnerPartOfId(id)
  /\ UNCHANGED <<op, type, ids, id, typeOut, recon, encoded, bytes, decoded>>

\* From the parts the Parser returned.
ReconstructFromParts ==
  /\ typeOut.err = "none" /\ innerOut.err = "none" /\ recon = NotCalled
  /\ recon' = Ok(reconstructIdFromTypeAndInnerPart(typeOut.val, innerOut.val))
  /\ UNCHANGED <<op, type, ids, id, typeOut, innerOut, encoded, bytes, decoded>>

\* From a type and an inner part the caller writes by hand.
ReconstructIdFromTypeAndInnerPart ==
  /\ op = "none" /\ ids = <<>> /\ decoded = NotCalled
  /\ \E t \in TypeSample, innerPart \in InnerParts :
       /\ type' = t
       /\ id' = reconstructIdFromTypeAndInnerPart(t, innerPart)
  /\ op' = "reconstructIdFromTypeAndInnerPart"
  /\ UNCHANGED <<ids, typeOut, innerOut, recon, encoded, bytes, decoded>>

EncodeIdToBytes ==
  /\ op # "none" /\ encoded = NotCalled
  /\ encoded' = encodeIdToBytes(id)
  /\ UNCHANGED <<op, type, ids, id, typeOut, innerOut, recon, bytes, decoded>>

\* The caller decodes the bytes it has just encoded, under the same type.
DecodeEncoded ==
  /\ encoded.err = "none" /\ decoded = NotCalled /\ op # "decodeIdFromBytes"
  /\ bytes' = encoded.val
  /\ decoded' = decodeIdFromBytes(type, encoded.val)
  /\ UNCHANGED <<op, type, ids, id, typeOut, innerOut, recon, encoded>>

\* The caller decodes bytes read back from storage.
DecodeIdFromBytes ==
  /\ op = "none" /\ ids = <<>> /\ decoded = NotCalled
  /\ \E t \in TypeSample, b \in ByteArrays :
       /\ type' = t
       /\ bytes' = b
       /\ decoded' = decodeIdFromBytes(t, b)
  /\ UNCHANGED <<op, ids, id, typeOut, innerOut, recon, encoded>>

\* The caller takes the decoded identifier as the identifier it holds.
HoldDecoded ==
  /\ op = "none" /\ decoded.err = "none"
  /\ id' = decoded.val
  /\ op' = "decodeIdFromBytes"
  /\ UNCHANGED <<type, ids, typeOut, innerOut, recon, encoded, bytes, decoded>>

(***************************************************************************)
(* Specifications.                                                         *)
(***************************************************************************)
InitCommon ==
  /\ type = <<>> /\ ids = <<>> /\ id = <<>> /\ bytes = <<>>
  /\ typeOut = NotCalled /\ innerOut = NotCalled /\ recon = NotCalled
  /\ encoded = NotCalled /\ decoded = NotCalled

\* The Parser on strings a caller types.
InitParser == InitCommon /\ op = "caller"

NextParser ==
  \/ TypeChar
  \/ GetTypeFromId
  \/ GetInnerPartOfId
  \/ ReconstructFromParts

SpecParser == InitParser /\ [][NextParser]_vars

\* The Composer on lists of identifiers, its output parsed and encoded.
InitComposer == InitCommon /\ op = "none"

NextComposer ==
  \/ AddId
  \/ MakeCompoundId
  \/ MakeSymmetricId
  \/ GetTypeFromId
  \/ GetInnerPartOfId
  \/ EncodeIdToBytes

SpecComposer == InitComposer /\ [][NextComposer]_vars

\* The Generator, its output parsed.
InitGenerator == InitCommon /\ op = "none"

NextGenerator ==
  \/ MakeId
  \/ GetTypeFromId
  \/ GetInnerPartOfId

SpecGenerator == InitGenerator /\ [][NextGenerator]_vars

\* The binary transcoder on minted and hand-written identifiers and on
\* stored byte arrays.
InitTranscoder == InitCommon /\ op = "none"

NextTranscoder ==
  \/ MakeId
  \/ ReconstructIdFromTypeAndInnerPart
  \/ EncodeIdToBytes
  \/ DecodeEncoded
  \/ DecodeIdFromBytes
  \/ HoldDecoded

SpecTranscoder == InitTranscoder /\ [][NextTranscoder]_vars

(***************************************************************************)
(* Properties.                                                             *)
(***************************************************************************)
AlphabetUnits == {BASE_64_URL_ALPHABET[i] : i \in 1..Len(BASE_64_URL_ALPHABET)}

\* The text of s between the '[' that follows the type t and the last unit.
BodyAfterType(t, s) == SubSeq(s, Len(t) + 2, Len(s) - 1)

\* s is t, '[', 22 symbols of the alphabet, ']'.
IsRandomBodyId(t, s) ==
  /\ Len(s) = Len(t) + 2 + NTID_LENGTH
  /\ SubSeq(s, 1, Len(t)) = t
  /\ s[Len(t) + 1] = LBRACKET
  /\ s[Len(s)] = RBRACKET
  /\ \A i \in (Len(t) + 2)..(Len(s) - 1) : s[i] \in AlphabetUnits

\* The caller holds an identifier it minted or wrote by hand under `type`.
HoldsOwnId == op \in {"makeId", "reconstructIdFromTypeAndInnerPart"}

\* C1: the transcoder round trip. For an identifier made of a type, '[', 22
\* symbols of the alphabet and ']' (every minted identifier is one),
\* encodeIdToBytes raises no error and decodeIdFromBytes of the type and the
\* encoded bytes returns the identifier itself.
C1_TranscoderRoundTrip ==
  (HoldsOwnId /\ IsRandomBodyId(type, id)) =>
    /\ encoded # NotCalled => encoded.err = "none"
    /\ decoded # NotCalled => decoded = Ok(id)

\* A minted identifier with '_' and another symbol in its body came back.
C1_Witness ==
  /\ op = "makeId"
  /\ decoded = Ok(id)
  /\ bytes = encoded.val
  /\ \E i, j \in 1..Len(id) : id[i] = UNDERSCORE /\ id[j] = MINUS

\* C2: the parser round trip. Whenever getTypeFromId and getInnerPartOfId
\* succeed on a string, reconstructIdFromTypeAndInnerPart of the two results
\* is that string, unit for unit.
C2_ParserRoundTrip == recon # NotCalled => recon = Ok(id)

\* A string with a bracket or a comma inside its body was reconstructed.
C2_Witness ==
  /\ recon = Ok(id)
  /\ \E i \in 3..(Len(id) - 1) : id[i] \in {LBRACKET, RBRACKET, COMMA}

\* The list `list` reordered by the permutation f of its indices.
Permuted(list, f) == [i \in 1..Len(list) |-> list[f[i]]]

\* C3: symmetry. makeSymmetricId of the same type and of any reordering of
\* the list of identifiers (duplicates included) is the identical string.
C3_Symmetry ==
  op = "makeSymmetricId" =>
    \A f \in Permutations(1..Len(ids)) :
      makeSymmetricId(type, Permuted(ids, f)) = id

\* A symmetric identifier of a list that is out of order and repeats an
\* identifier.
C3_Witness ==
  /\ op = "makeSymmetricId"
  /\ Len(ids) >= 3
  /\ stringLess(ids[2], ids[1])
  /\ ids[1] = ids[3]

\* The caller holds bytes read back from storage, decoded or about to be.
HoldsStoredBytes == op \in {"none", "decodeIdFromBytes"} /\ decoded # NotCalled

\* The last k bits of the 17-byte array b are zero.
LastBitsZero(b, k) == b[NTID_BYTES] % (2 ^ k) = 0

\* The transcoding is a bijection between the 22-symbol bodies and the 17-byte
\* arrays whose last k bits are zero: an encoded body is such an array and
\* decodes to the body it came from (so no two bodies share an array), and
\* every such array decodes to a 22-symbol body whose encoding is the array.
TranscodingBijection(k) ==
  /\ (HoldsOwnId /\ IsRandomBodyId(type, id) /\ encoded # NotCalled) =>
       /\ encoded.err = "none"
       /\ Len(encoded.val) = NTID_BYTES
       /\ \A i \in 1..NTID_BYTES : encoded.val[i] \in 0..255
       /\ LastBitsZero(encoded.val, k)
  /\ (HoldsOwnId /\ IsRandomBodyId(type, id) /\ decoded # NotCalled) =>
       decoded = Ok(id)
  /\ (HoldsStoredBytes /\ Len(bytes) = NTID_BYTES /\ LastBitsZero(bytes, k)) =>
       /\ decoded.err = "none"
       /\ IsRandomBodyId(type, decoded.val)
       /\ (op = "decodeIdFromBytes" /\ encoded # NotCalled) => encoded = Ok(bytes)

\* C4 as stated: the bijection is with the 17-byte arrays whose last 2 bits
\* are zero.
C4_BijectionLastTwoBits == TranscodingBijection(2)

\* C4, amended: the transcoding is a bijection between the 22-symbol bodies
\* and the 17-byte arrays whose last 4 bits are zero; decodeIdFromBytes
\* succeeds on every such array and inverts encodeIdToBytes there.
C4_BijectionLastFourBits == TranscodingBijection(4)

\* A stored array with a non-zero last byte was decoded and encoded back.
C4_Witness ==
  /\ op = "decodeIdFromBytes"
  /\ encoded = Ok(bytes)
  /\ bytes[NTID_BYTES] = 240
  /\ bytes[1] = 255

NoOpenBracket(s) == \A i \in 1..Len(s) : s[i] # LBRACKET

EndsInCloseBracket(s) == s # <<>> /\ s[Len(s)] = RBRACKET

\* s is one or more units other than '[', then '[', then any units outside
\* `excluded`, then a final ']'.
HasIdShape(s, excluded) ==
  \E k \in 2..(Len(s) - 1) :
    /\ \A i \in 1..(k - 1) : s[i] # LBRACKET
    /\ s[k] = LBRACKET
    /\ s[Len(s)] = RBRACKET
    /\ \A i \in (k + 1)..(Len(s) - 1) : s[i] \notin excluded

\* Both parser functions throw InvalidFormat on a string with no '[' or not
\* ending in ']', succeed on a string of the shape whose body avoids
\* `excluded`, and accept and reject the same strings.
ParserAcceptance(excluded) ==
  /\ typeOut # NotCalled =>
       /\ (NoOpenBracket(id) \/ ~EndsInCloseBracket(id)) =>
            typeOut = Throw("InvalidFormat")
       /\ HasIdShape(id, excluded) => typeOut.err = "none"
  /\ innerOut # NotCalled =>
       /\ (NoOpenBracket(id) \/ ~EndsInCloseBracket(id)) =>
            innerOut = Throw("InvalidFormat")
       /\ HasIdShape(id, excluded) => innerOut.err = "none"
  /\ (typeOut # NotCalled /\ innerOut # NotCalled) => typeOut.err = innerOut.err

\* C5 as stated: the body of an accepted string may hold any units
\* whatsoever.
C5_AcceptsAnyBody == ParserAcceptance({})

\* C5, amended: getTypeFromId and getInnerPartOfId throw InvalidFormat when
\* the string has no '[' or does not end in ']', succeed on one or more
\* non-'[' units, '[', any units other than line terminators (LF, CR, U+2028,
\* U+2029) and a final ']', and accept and reject the same strings.
C5_AcceptsBodyWithoutLineTerminators == ParserAcceptance(LineTerminators)

\* Both functions succeeded on a string whose body is a bracket.
C5_Witness ==
  /\ typeOut.err = "none"
  /\ innerOut.err = "none"
  /\ Len(innerOut.val) = 1
  /\ innerOut.val[1] \in {LBRACKET, RBRACKET}

\* C6: the shape of makeId. A minted identifier is the type, '[', exactly 22
\* symbols of the 64-symbol alphabet and ']', so of length len(type) + 24;
\* getTypeFromId returns the type and getInnerPartOfId the 22-symbol body.
C6_MakeIdShape ==
  op = "makeId" =>
    /\ IsRandomBodyId(type, id)
    /\ Len(id) = Len(type) + 2 + NTID_LENGTH
    /\ typeOut # NotCalled => typeOut = Ok(type)
    /\ innerOut # NotCalled =>
         /\ innerOut = Ok(BodyAfterType(type, id))
         /\ Len(innerOut.val) = NTID_LENGTH

\* An identifier minted under the type "\na", with '_' in its body, parsed.
C6_Witness ==
  /\ op = "makeId"
  /\ type = <<10, 97>>
  /\ typeOut = Ok(type)
  /\ innerOut.err = "none"
  /\ \E i \in 1..Len(innerOut.val) : innerOut.val[i] = UNDERSCORE

\* The strings of `list` with a ',' between each two, built from the end.
RECURSIVE CommaJoined(_)
CommaJoined(list) ==
  IF list = <<>> THEN <<>>
  ELSE IF Len(list) = 1 THEN list[1]
  ELSE CommaJoined(SubSeq(list, 1, Len(list) - 1)) \o <<COMMA>> \o list[Len(list)]

HasLineTerminator(s) == \E i \in 1..Len(s) : s[i] \in LineTerminators

\* A compound identifier parses back to its type and to its ids joined by
\* ',', for the lists that satisfy `covered`.
CompoundParses(covered) ==
  (op = "makeCompoundId" /\ covered) =>
    /\ typeOut # NotCalled => typeOut = Ok(type)
    /\ innerOut # NotCalled => innerOut = Ok(CommaJoined(ids))

\* C7 as stated: for every list of identifiers.
C7_CompoundParsesForEveryList == CompoundParses(TRUE)

\* C7, amended: for every type (non-empty, no '[') and every list of
\* identifiers none of which holds a line terminator, getTypeFromId of the
\* compound identifier is the type and getInnerPartOfId is the ids joined by
\* ','.
C7_CompoundParsesWithoutLineTerminators ==
  CompoundParses(\A i \in 1..Len(ids) : ~HasLineTerminator(ids[i]))

\* A compound of a repeated identifier and a nested one, parsed.
C7_Witness ==
  /\ op = "makeCompoundId"
  /\ Len(ids) >= 3
  /\ ids[1] = ids[2]
  /\ ids[3] = IdNest
  /\ typeOut = Ok(type)
  /\ innerOut = Ok(CommaJoined(ids))

\* x is y or comes before it, unit by unit, a proper prefix coming first.
LexLeq(x, y) ==
  \/ x = y
  \/ \E k \in 1..(Len(y)) :
       /\ k <= Len(x) + 1
       /\ \A i \in 1..(k - 1) : x[i] = y[i]
       /\ (k = Len(x) + 1 \/ x[k] < y[k])

LexSorted(list) == \A i \in 1..(Len(list) - 1) : LexLeq(list[i], list[i + 1])

\* C8: the Composer's output. makeCompoundId is the type, '[', the ids joined
\* by ',' in the given order, and ']' (type + '[]' for the empty list);
\* makeSymmetricId is makeCompoundId of the ids in lexicographic order.
C8_ComposerOutput ==
  /\ op = "makeCompoundId" =>
       /\ id = type \o <<LBRACKET>> \o CommaJoined(ids) \o <<RBRACKET>>
       /\ ids = <<>> => id = type \o <<LBRACKET, RBRACKET>>
  /\ op = "makeSymmetricId" =>
       \E f \in Permutations(1..Len(ids)) :
         /\ LexSorted(Permuted(ids, f))
         /\ id = makeCompoundId(type, Permuted(ids, f))

\* A symmetric identifier of a list given out of order.
C8_Witness ==
  /\ op = "makeSymmetricId"
  /\ Len(ids) >= 2
  /\ ids[1] = IdPair
  /\ ids[2] = IdLeaf
  /\ id # makeCompoundId(type, ids)

\* C9: the length preconditions. encodeIdToBytes throws LengthMismatch, and
\* returns nothing, for every identifier the Parser accepts whose inner part
\* is not of 22 units; decodeIdFromBytes throws LengthMismatch, and returns
\* nothing, for every byte array not of 17 bytes, whatever its type and bytes.
C9_LengthMismatch ==
  /\ (HoldsOwnId /\ encoded # NotCalled
        /\ getInnerPartOfId(id).err = "none"
        /\ Len(getInnerPartOfId(id).val) # NTID_LENGTH) =>
       encoded = Throw("LengthMismatch")
  /\ (decoded # NotCalled /\ Len(bytes) # NTID_BYTES) =>
       decoded = Throw("LengthMismatch")

\* An inner part of 23 units, '[' among them, was refused for its length.
C9_Witness ==
  /\ op = "reconstructIdFromTypeAndInnerPart"
  /\ Len(id) = Len(type) + 2 + NTID_LENGTH + 1
  /\ id[Len(type) + 2] = LBRACKET
  /\ encoded = Throw("LengthMismatch")

\* The caller holds a compound or symmetric identifier of one or more
\* nested identifiers and has called encodeIdToBytes on it.
EncodedCompound ==
  /\ op \in {"makeCompoundId", "makeSymmetricId"}
  /\ Len(ids) >= 1
  /\ encoded # NotCalled

\* C10 as stated: encodeIdToBytes refuses every compound or symmetric
\* identifier (here: every one the Parser accepts) by its length
\* precondition.
C10_CompoundRefusedForLength ==
  (EncodedCompound /\ getInnerPartOfId(id).err = "none") =>
    encoded = Throw("LengthMismatch")

\* C10, amended: encodeIdToBytes never returns a byte array for a compound
\* or symmetric identifier of one or more nested identifiers. It throws
\* LengthMismatch when the inner part is not of 22 units; when the inner part
\* is of exactly 22 units the length precondition passes and atob refuses the
\* '[' of the nested identifier (InvalidCharacterError); and a compound the
\* Parser rejects is refused with InvalidFormat.
C10_CompoundNeverTranscoded ==
  EncodedCompound =>
    LET r == getInnerPartOfId(id)
    IN /\ encoded.err \in {"InvalidFormat", "LengthMismatch", "InvalidCharacterError"}
       /\ encoded.val = <<>>
       /\ r.err # "none" => encoded.err = "InvalidFormat"
       /\ (r.err = "none" /\ Len(r.val) # NTID_LENGTH) =>
            encoded.err = "LengthMismatch"
       /\ (r.err = "none" /\ Len(r.val) = NTID_LENGTH) =>
            encoded.err = "InvalidCharacterError"

\* A compound whose inner part is of exactly 22 units was refused by atob.
C10_Witness ==
  /\ EncodedCompound
  /\ Len(getInnerPartOfId(id).val) = NTID_LENGTH
  /\ encoded = Throw("InvalidCharacterError")

\* The caller holds an identifier the Parser accepts with an inner part of
\* 22 symbols of the alphabet.
HoldsRandomBody ==
  LET r == getInnerPartOfId(id)
  IN /\ HoldsOwnId
     /\ r.err = "none"
     /\ Len(r.val) = NTID_LENGTH
     /\ \A i \in 1..Len(r.val) : r.val[i] \in AlphabetUnits

\* C11: the size of the output of encodeIdToBytes. For every identifier whose
\* inner part is 22 symbols of the alphabet, encodeIdToBytes returns exactly
\* 17 bytes, each in 0..255, and its 17-byte check (InternalError) does not
\* fail.
C11_EncodedSize ==
  (HoldsRandomBody /\ encoded # NotCalled) =>
    /\ encoded.err # "InternalError"
    /\ encoded.err = "none"
    /\ Len(encoded.val) = NTID_BYTES
    /\ \A i \in 1..Len(encoded.val) : encoded.val[i] \in 0..255

\* A hand-written body of 21 'A's and one '_' gave 17 bytes, not all zero.
C11_Witness ==
  /\ op = "reconstructIdFromTypeAndInnerPart"
  /\ HoldsRandomBody
  /\ \E i \in 1..Len(id) : id[i] = UNDERSCORE
  /\ encoded.err = "none"
  /\ Len(encoded.val) = NTID_BYTES
  /\ \E i \in 1..NTID_BYTES : encoded.val[i] # 0

\* Bit k (from 0, most significant first) of the bytes b, zero beyond them.
BitAt(b, k) ==
  IF k >= 8 * Len(b) THEN 0
  ELSE (b[(k \div 8) + 1] \div (2 ^ (7 - (k % 8)))) % 2

\* The value of the j-th group of 6 bits of the bytes b.
SextetAt(b, j) ==
  LET k == 6 * (j - 1)
  IN 32 * BitAt(b, k) + 16 * BitAt(b, k + 1) + 8 * BitAt(b, k + 2)
     + 4 * BitAt(b, k + 3) + 2 * BitAt(b, k + 4) + BitAt(b, k + 5)

\* The bytes b as symbols of the URL-safe alphabet, 6 bits each, the last
\* group filled with zero bits, without '=' padding.
UrlSymbols(b) ==
  [j \in 1..((8 * Len(b) + 5) \div 6) |-> BASE_64_URL_ALPHABET[SextetAt(b, j) + 1]]

\* C12: the CorruptEncoding check. For every 17-byte array,
\* decodeIdFromBytes re-encodes the bytes to 23 symbols of the alphabet; it
\* throws CorruptEncoding exactly when the 23rd symbol is not 'A', and
\* otherwise returns the type, '[', the first 22 symbols and ']'.
C12_CorruptEncoding ==
  (decoded # NotCalled /\ Len(bytes) = NTID_BYTES) =>
    LET symbols == UrlSymbols(bytes)
    IN /\ Len(symbols) = NTID_LENGTH + 1
       /\ \A j \in 1..Len(symbols) : symbols[j] \in AlphabetUnits
       /\ decoded = Throw("CorruptEncoding") <=> symbols[NTID_LENGTH + 1] # CHAR_A
       /\ symbols[NTID_LENGTH + 1] = CHAR_A =>
            decoded = Ok(type \o <<LBRACKET>> \o SubSeq(symbols, 1, NTID_LENGTH)
                              \o <<RBRACKET>>)

\* A stored array of 0xFF bytes whose last byte is 0xF0 was decoded to a body
\* that ends in '_'.
C12_Witness ==
  /\ op = "none"
  /\ Len(bytes) = NTID_BYTES
  /\ bytes[NTID_BYTES] = 240
  /\ decoded.err = "none"
  /\ bytes[1] = 255
  /\ decoded.val[Len(decoded.val) - 1] = UNDERSCORE

\* The number of '[' less the number of ']' among the first k units of s.
Depth(s, k) ==
  Cardinality({i \in 1..k : s[i] = LBRACKET})
  - Cardinality({i \in 1..k : s[i] = RBRACKET})

\* The brackets of s are balanced and every ',' of s lies inside brackets.
WellNested(s) ==
  /\ \A k \in 1..Len(s) :
       /\ Depth(s, k) >= 0
       /\ s[k] = COMMA => Depth(s, k) >= 1
  /\ Depth(s, Len(s)) = 0

\* The identifiers of the pool that the Parser accepts.
ParsedIds == {x \in IdPool : getTypeAndInnerPart(x).err = "none"}

\* Those of them that are well nested.
WellNestedIds == {x \in ParsedIds : WellNested(x)}

\* The lists of up to MaxIds identifiers of the set S.
ListsOver(S) == UNION {[1..n -> S] : n \in 0..MaxIds}

\* One list is a reordering of the other.
SameMultiset(l1, l2) ==
  /\ Len(l1) = Len(l2)
  /\ \E f \in Permutations(1..Len(l1)) : Permuted(l1, f) = l2

\* No list of identifiers of S other than a reordering of `ids` gives, under
\* the same type, the symmetric identifier of `ids`.
CollisionFree(S) ==
  (op = "makeSymmetricId" /\ \A i \in 1..Len(ids) : ids[i] \in S) =>
    \A other \in ListsOver(S) :
      makeSymmetricId(type, other) = id => SameMultiset(other, ids)

\* C13 as stated: collision-freedom of composition over the identifiers the
\* Parser accepts. For a fixed type, two lists of such identifiers that are
\* not permutations of one another never give the same makeSymmetricId.
C13_CollisionFreeParsed == CollisionFree(ParsedIds)

\* C13, amended: for a fixed type, two lists of identifiers the Parser
\* accepts, each with balanced brackets and every ',' inside brackets, that
\* are not permutations of one another never give the same makeSymmetricId.
C13_CollisionFreeWellNested == CollisionFree(WellNestedIds)

\* A symmetric identifier of a nested identifier and a repeated one, which
\* differs from that of the list without the repetition.
C13_Witness ==
  /\ op = "makeSymmetricId"
  /\ ids = <<IdNest, IdLeaf, IdLeaf>>
  /\ ids \in ListsOver(WellNestedIds)
  /\ makeSymmetricId(type, <<IdNest, IdLeaf>>) # id

\* The bodies makeId gives over the bytes the random source can hand to the
\* two uuidv4 calls.
MintedBodies ==
  {BodyAfterType(<<97>>, makeId(<<97>>, rnds)) : rnds \in RandomSource}

\* The symbols that occur at each position of a minted body.
PossibleSymbols ==
  [pos \in 1..NTID_LENGTH |-> {body[pos] : body \in MintedBodies}]

\* C14: full entropy of random bodies. Every one of the 64 symbols of the
\* alphabet can occur at each of the 22 positions of the body of a makeId
\* result, so a random body carries 22 * 6 = 132 bits.
C14_FullEntropy ==
  op = "makeId" =>
    /\ BodyAfterType(type, id) \in MintedBodies
    /\ \A pos \in 1..NTID_LENGTH : PossibleSymbols[pos] = AlphabetUnits

\* C15: the reverse round trip of the transcoder. For every type (non-empty,
\* no '[') and every 17-byte array b that decodeIdFromBytes accepts,
\* encodeIdToBytes of the decoded identifier succeeds and returns b, byte
\* for byte, and the same under every other type.
C15_ReverseRoundTrip ==
  (op = "decodeIdFromBytes" /\ Len(bytes) = NTID_BYTES /\ encoded # NotCalled) =>
    /\ id = decoded.val
    /\ encoded.err = "none"
    /\ Len(encoded.val) = Len(bytes)
    /\ \A i \in 1..Len(bytes) : encoded.val[i] = bytes[i]
    /\ \A t \in TypeSample :
         LET other == decodeIdFromBytes(t, bytes)
         IN /\ other.err = "none"
            /\ encodeIdToBytes(other.val) = encoded

\* An array decoded under the type "a]" to a body with '-' and '_' in it was
\* encoded back to itself.
C15_Witness ==
  /\ op = "decodeIdFromBytes"
  /\ type = <<97, RBRACKET>>
  /\ encoded = Ok(bytes)
  /\ \E i, j \in 1..Len(id) : id[i] = MINUS /\ id[j] = UNDERSCORE
  /\ bytes[NTID_BYTES] # 0

====
